---- MODULE Spec2Model ----
(***************************************************************************)
(* Model of the two streaming BLAST report parsers of this repository:     *)
(*   BlastParser     (betterer_parser.py, text reports)                    *)
(*   BlastXMLParser  (meersohnf__besterest_parser.py, XML reports)         *)
(*                                                                         *)
(* A Python string is modelled as a sequence of tokens.  A token is a      *)
(* maximal run of characters of one class: a word, a run of digits, one    *)
(* blank " ", or one of the punctuation characters "=", ">", "<", ",".     *)
(* The empty string is <<>>.  An optional value (a record or None) is a    *)
(* sequence of length 0 or 1.                                              *)
(***************************************************************************)
EXTENDS Integers, Sequences, FiniteSets, TLC

(* ------------------------------ bounds --------------------------------- *)
\* lines one parser instance consumes over its life (text / markup variant)
MaxLinesT == 6
MaxLinesX == 10
\* parse() calls on one instance
MaxParses == 2
\* tokens an annotation may grow to by continuation lines
MaxAnnotLen == 5
\* tokens of a line handed to _extract_content on its own
MaxExtractLen == 5

(* ------------------------------ strings -------------------------------- *)
WS == " "
None == <<>>

Min(S) == CHOOSE x \in S : \A y \in S : x <= y
Max(S) == CHOOSE x \in S : \A y \in S : y <= x

\* index of the first token at or after i that is not a blank (Len+1 if none)
SkipWS(line, i) ==
    LET S == {j \in i..Len(line) : line[j] # WS}
    IN  IF S = {} THEN Len(line) + 1 ELSE Min(S)

\* str.strip(): leading and trailing whitespace removed
Strip(line) ==
    LET S == {j \in 1..Len(line) : line[j] # WS}
    IN  IF S = {} THEN <<>> ELSE SubSeq(line, Min(S), Max(S))

\* digit runs of the vocabulary, and int() of one
DigitToks == {"1", "55", "120"}
IntOf(t) == CASE t = "1" -> 1 [] t = "55" -> 55 [] t = "120" -> 120 [] OTHER -> 0

\* tokens of the form Z\d{4}
ZIdToks == {"Z0001", "Z0002"}

NoMatch == [ok |-> FALSE, g1 |-> <<>>, g2 |-> <<>>]

(* ------------------------- text variant: patterns ---------------------- *)
\* Q_PATTERN = ^Query=\s+(Z\d{4})\s+(.*)
Q_PATTERN(line) ==
    IF Len(line) >= 3 /\ line[1] = "Query" /\ line[2] = "=" /\ line[3] = WS
    THEN LET a == SkipWS(line, 3)
         IN  IF a + 1 <= Len(line) /\ line[a] \in ZIdToks /\ line[a + 1] = WS
             THEN [ok |-> TRUE, g1 |-> <<line[a]>>,
                   g2 |-> SubSeq(line, SkipWS(line, a + 1), Len(line))]
             ELSE NoMatch
    ELSE NoMatch

\* S_PATTERN = ^>(\S+)\s+(.*)
S_PATTERN(line) ==
    IF Len(line) >= 2 /\ line[1] = ">" /\ line[2] # WS
    THEN LET B == {j \in 3..Len(line) : line[j] = WS}
         IN  IF B = {} THEN NoMatch
             ELSE [ok |-> TRUE, g1 |-> SubSeq(line, 2, Min(B) - 1),
                   g2 |-> SubSeq(line, SkipWS(line, Min(B)), Len(line))]
    ELSE NoMatch

\* LEN_PATTERN = Length=(\d+), searched anywhere in the line
LEN_PATTERN(line) ==
    LET S == {i \in 1..Len(line) - 2 :
                 line[i] = "Length" /\ line[i + 1] = "=" /\ line[i + 2] \in DigitToks}
    IN  IF S = {} THEN NoMatch
        ELSE [ok |-> TRUE, g1 |-> <<line[Min(S) + 2]>>, g2 |-> <<>>]

\* EVAL_PATTERN = Expect\s*=\s*([^,\s]+), searched anywhere in the line
EvalAt(line, i) ==
    LET a == SkipWS(line, i + 1)
        b == SkipWS(line, a + 1)
    IN  [ok |-> /\ line[i] = "Expect"
                /\ a <= Len(line) /\ line[a] = "="
                /\ b <= Len(line) /\ line[b] # ",",
         from |-> b]

EVAL_PATTERN(line) ==
    LET S == {i \in 1..Len(line) : EvalAt(line, i).ok}
    IN  IF S = {} THEN NoMatch
        ELSE LET b == EvalAt(line, Min(S)).from
                 E == {j \in b..Len(line) : line[j] \in {",", WS}}
                 e == IF E = {} THEN Len(line) ELSE Min(E) - 1
             IN  [ok |-> TRUE, g1 |-> SubSeq(line, b, e), g2 |-> <<>>]

\* the literal 'No hits found'
NoHitsText == <<"No", " ", "hits", " ", "found">>

\* sub in line
Contains(line, sub) ==
    \E i \in 1..Len(line) - Len(sub) + 1 : SubSeq(line, i, i + Len(sub) - 1) = sub

\* line.startswith(prefix)
StartsWith(line, prefix) ==
    Len(line) >= Len(prefix) /\ SubSeq(line, 1, Len(prefix)) = prefix

\* NO_HIT_PATTERN = No hits found, searched anywhere in the line
NO_HIT_PATTERN(line) == Contains(line, NoHitsText)

\* int(s): surrounding whitespace and one sign are accepted; anything else
\* (the empty string included) raises ValueError (ok = FALSE)
ParseInt(s) ==
    LET t == Strip(s)
    IN  IF Len(t) = 1 /\ t[1] \in DigitToks THEN [ok |-> TRUE, val |-> IntOf(t[1])]
        ELSE IF Len(t) = 2 /\ t[1] = "+" /\ t[2] \in DigitToks
        THEN [ok |-> TRUE, val |-> IntOf(t[2])]
        ELSE IF Len(t) = 2 /\ t[1] = "-" /\ t[2] \in DigitToks
        THEN [ok |-> TRUE, val |-> 0 - IntOf(t[2])]
        ELSE [ok |-> FALSE, val |-> 0]

(* ------------------------- text variant: parser ------------------------ *)
\* BlastParser._reset_query_state; self.hits = [] binds a new list object,
\* hits_obj is the identity of the list object self.hits is bound to
T_reset_query_state(p) ==
    [p EXCEPT !.query_id = <<>>, !.query_annot = <<>>, !.query_len = 0,
              !.subject_length = 0, !.subject_id = <<>>, !.subject_annot = <<>>,
              !.hits = <<>>, !.hits_obj = @ + 1]

\* the instance BlastParser() constructs
T_init ==
    T_reset_query_state(
        [state |-> "scan_for_query", query_id |-> <<>>, query_annot |-> <<>>,
         query_len |-> 0, subject_length |-> 0, subject_id |-> <<>>,
         subject_annot |-> <<>>, hits |-> <<>>, hits_obj |-> 0])

\* QueryResult(query_id, query_annot, query_len, hits)
T_QueryResult(p) ==
    [query_id |-> p.query_id, query_annot |-> p.query_annot,
     query_len |-> p.query_len, hits |-> p.hits]

\* variant of _finalize_query that does not reset the working state
T_finalize_query_noreset(p) ==
    IF p.query_id = <<>>
    THEN [p |-> p, res |-> None]
    ELSE [p |-> p, res |-> <<T_QueryResult(p)>>]

\* BlastParser._finalize_query: p is the instance after the call, res the
\* returned record (None when no identifier is held)
T_finalize_query(p) ==
    IF p.query_id = <<>>
    THEN [p |-> p, res |-> None]
    ELSE [p |-> T_reset_query_state(p), res |-> <<T_QueryResult(p)>>]

\* A state method returns: p the instance afterwards, res the returned
\* record or None, fin the result of a _finalize_query call after which it
\* wrote no working field (<<>> when there is no such call), err whether it
\* raised (the instance is then left as the raise found it).
Quiet(p) == [p |-> p, res |-> None, fin |-> <<>>, err |-> FALSE]
Raised(p) == [p |-> p, res |-> None, fin |-> <<>>, err |-> TRUE]
Emitting(p, r) == [p |-> p, res |-> r, fin |-> <<r>>, err |-> FALSE]
EmittingThenWriting(p, r) == [p |-> p, res |-> r, fin |-> <<>>, err |-> FALSE]

\* variant of _scan_for_query that captures the header without finalizing
T_scan_for_query_nofinalize(p, line, k) ==
    LET m == Q_PATTERN(line)
    IN  IF m.ok
        THEN EmittingThenWriting([p EXCEPT !.query_id = m.g1,
                                           !.query_annot = m.g2,
                                           !.state = "extend_query"], None)
        ELSE Quiet(p)

\* BlastParser._scan_for_query
T_scan_for_query(p, line, k) ==
    LET m == Q_PATTERN(line)
        f == T_finalize_query(p)
    IN  IF m.ok
        THEN EmittingThenWriting([f.p EXCEPT !.query_id = m.g1,
                                             !.query_annot = m.g2,
                                             !.state = "extend_query"], f.res)
        ELSE Quiet(p)

\* BlastParser._extend_query
T_extend_query(p, line, k) ==
    LET m == LEN_PATTERN(line)
    IN  IF m.ok
        THEN Quiet([p EXCEPT !.query_len = IntOf(m.g1[1]),
                             !.state = "scan_for_subject"])
        ELSE Quiet([p EXCEPT !.query_annot = @ \o <<WS>> \o Strip(line)])

\* BlastParser._scan_for_subject
\* variant of _scan_for_subject that stays in its state on 'No hits found'
T_scan_for_subject_stay(p, line, k) ==
    LET m == S_PATTERN(line)
        f == T_finalize_query([p EXCEPT !.hits = <<>>, !.hits_obj = @ + 1])
    IN  IF NO_HIT_PATTERN(line)
        THEN Emitting(f.p, f.res)
        ELSE IF m.ok
        THEN Quiet([p EXCEPT !.subject_id = m.g1, !.subject_annot = m.g2,
                             !.state = "extend_subject"])
        ELSE T_scan_for_query(p, line, k)

T_scan_for_subject(p, line, k) ==
    LET m == S_PATTERN(line)
        f == T_finalize_query([p EXCEPT !.hits = <<>>, !.hits_obj = @ + 1])
    IN  IF NO_HIT_PATTERN(line)
        THEN Emitting([f.p EXCEPT !.state = "scan_for_query"], f.res)
        ELSE IF m.ok
        THEN Quiet([p EXCEPT !.subject_id = m.g1, !.subject_annot = m.g2,
                             !.state = "extend_subject"])
        ELSE T_scan_for_query(p, line, k)

\* variant of _extend_subject without the elif line.strip() test
T_extend_subject_noblank(p, line, k) ==
    LET m == LEN_PATTERN(line)
    IN  IF m.ok
        THEN Quiet([p EXCEPT !.subject_length = IntOf(m.g1[1]),
                             !.state = "scan_for_eval"])
        ELSE Quiet([p EXCEPT !.subject_annot = @ \o <<WS>> \o Strip(line)])

\* BlastParser._extend_subject
T_extend_subject(p, line, k) ==
    LET m == LEN_PATTERN(line)
    IN  IF m.ok
        THEN Quiet([p EXCEPT !.subject_length = IntOf(m.g1[1]),
                             !.state = "scan_for_eval"])
        ELSE IF Strip(line) # <<>>
        THEN Quiet([p EXCEPT !.subject_annot = @ \o <<WS>> \o Strip(line)])
        ELSE Quiet(p)

\* variant of the Hit construction that stores the e-value as a float would
\* print it (1e-320 underflows)
T_Hit_float(p, evalue, k) ==
    [subject_id |-> p.subject_id, annotation |-> p.subject_annot,
     evalue |-> IF evalue = <<"1e-320">> THEN <<"0.0">> ELSE evalue,
     subject_length |-> p.subject_length, ord |-> k]

\* Hit(subject_id, annotation, evalue, subject_length); ord is an auxiliary
\* stamp, the ordinal k of the marker line that completed the hit
T_Hit(p, evalue, k) ==
    [subject_id |-> p.subject_id, annotation |-> p.subject_annot,
     evalue |-> evalue, subject_length |-> p.subject_length, ord |-> k]

\* self.hits.append(hit)
T_append_hit(hits, hit) == Append(hits, hit)

\* BlastParser._scan_for_eval
T_scan_for_eval(p, line, k) ==
    LET m == EVAL_PATTERN(line)
    IN  IF m.ok
        THEN Quiet([p EXCEPT !.hits = T_append_hit(@, T_Hit(p, m.g1, k)),
                             !.state = "scan_for_subject"])
        ELSE Quiet(p)

\* variant of the record construction that keeps the list itself
T_hits_handle_alias(p) == p.hits_obj

\* hits=tuple(self.hits): what the record holds for its hits, 0 for a new
\* immutable object of its own, otherwise the identity of a list it shares
T_hits_handle(p) == 0

\* BlastParser.parse, after the loop: final = self._finalize_query()
T_parse_flush(p) == T_finalize_query(p)

\* self.state(line): the bound method held in self.state is called
T_dispatch(p, line, k) ==
    CASE p.state = "scan_for_query"   -> T_scan_for_query(p, line, k)
      [] p.state = "extend_query"     -> T_extend_query(p, line, k)
      [] p.state = "scan_for_subject" -> T_scan_for_subject(p, line, k)
      [] p.state = "extend_subject"   -> T_extend_subject(p, line, k)
      [] p.state = "scan_for_eval"    -> T_scan_for_eval(p, line, k)

(* ------------------------ markup variant: parser ----------------------- *)
\* an opening tag <name> and a closing tag </name>
Tag(name) == <<"<", name, ">">>
CloseTag(name) == <<"<", "/", name, ">">>

\* str.find / str.rfind: the 0-based index of the first / last c, -1 if none
Find(line, c) ==
    LET S == {i \in 1..Len(line) : line[i] = c}
    IN  IF S = {} THEN -1 ELSE Min(S) - 1
RFind(line, c) ==
    LET S == {i \in 1..Len(line) : line[i] = c}
    IN  IF S = {} THEN -1 ELSE Max(S) - 1

\* line[start:end] for 0 <= start <= end <= len(line)
Slice(line, start, end) == SubSeq(line, start + 1, end)

\* variant of _extract_content that ends at the first '<' (find for rfind)
X_extract_content_find(line) ==
    LET start == Find(line, ">") + 1
        end   == Find(line, "<")
    IN  IF start > 0 /\ end > start THEN Slice(line, start, end) ELSE <<>>

\* BlastXMLParser._extract_content
X_extract_content(line) ==
    LET start == Find(line, ">") + 1
        end   == RFind(line, "<")
    IN  IF start > 0 /\ end > start THEN Slice(line, start, end) ELSE <<>>

\* BlastXMLParser._reset_hsp_state
X_reset_hsp_state(p) ==
    [p EXCEPT !.hsp_bit_score = <<>>, !.hsp_score = <<>>, !.hsp_evalue = <<>>,
              !.hsp_query_from = 0, !.hsp_query_to = 0, !.hsp_hit_from = 0,
              !.hsp_hit_to = 0, !.hsp_identity = 0, !.hsp_positive = 0,
              !.hsp_gaps = 0, !.hsp_align_len = 0, !.hsp_qseq = <<>>,
              !.hsp_hseq = <<>>, !.hsp_midline = <<>>]

\* variant of _reset_hit_state that keeps the list of completed HSPs
X_reset_hit_state_keephsps(p) ==
    X_reset_hsp_state(
        [p EXCEPT !.hit_num = 0, !.hit_id = <<>>, !.hit_def = <<>>,
                  !.hit_accession = <<>>, !.hit_len = 0])

\* BlastXMLParser._reset_hit_state
X_reset_hit_state(p) ==
    X_reset_hsp_state(
        [p EXCEPT !.hit_num = 0, !.hit_id = <<>>, !.hit_def = <<>>,
                  !.hit_accession = <<>>, !.hit_len = 0, !.current_hsps = <<>>])

\* BlastXMLParser._reset_query_state; self.current_hits = [] binds a new list
\* object, hits_obj is the identity of the list current_hits is bound to
X_reset_query_state(p) ==
    X_reset_hit_state(
        [p EXCEPT !.iter_num = 0, !.query_id = <<>>, !.query_def = <<>>,
                  !.query_len = 0, !.message = <<>>, !.current_hits = <<>>,
                  !.hits_obj = @ + 1])

\* BlastXMLParser._reset_all_state
X_reset_all_state(p) == X_reset_query_state(p)

\* the instance BlastXMLParser() constructs
X_init ==
    X_reset_all_state(
        [state |-> "scan_for_iteration",
         iter_num |-> 0, query_id |-> <<>>, query_def |-> <<>>, query_len |-> 0,
         message |-> <<>>, current_hits |-> <<>>, hits_obj |-> 0,
         hit_num |-> 0, hit_id |-> <<>>, hit_def |-> <<>>, hit_accession |-> <<>>,
         hit_len |-> 0, current_hsps |-> <<>>,
         hsp_bit_score |-> <<>>, hsp_score |-> <<>>, hsp_evalue |-> <<>>,
         hsp_query_from |-> 0, hsp_query_to |-> 0, hsp_hit_from |-> 0,
         hsp_hit_to |-> 0, hsp_identity |-> 0, hsp_positive |-> 0,
         hsp_gaps |-> 0, hsp_align_len |-> 0, hsp_qseq |-> <<>>,
         hsp_hseq |-> <<>>, hsp_midline |-> <<>>])

\* Hsp(...); ord is an auxiliary stamp, the ordinal k of the </Hsp> line
X_Hsp(p, k) ==
    [bit_score |-> p.hsp_bit_score, score |-> p.hsp_score, evalue |-> p.hsp_evalue,
     query_from |-> p.hsp_query_from, query_to |-> p.hsp_query_to,
     hit_from |-> p.hsp_hit_from, hit_to |-> p.hsp_hit_to,
     identity |-> p.hsp_identity, positive |-> p.hsp_positive,
     gaps |-> p.hsp_gaps, align_len |-> p.hsp_align_len,
     qseq |-> p.hsp_qseq, hseq |-> p.hsp_hseq, midline |-> p.hsp_midline,
     ord |-> k]

\* variant of _finalize_hsp that inserts at the front of the list
X_finalize_hsp_front(p, k) == [p EXCEPT !.current_hsps = <<X_Hsp(p, k)>> \o @]

\* BlastXMLParser._finalize_hsp
X_finalize_hsp(p, k) == [p EXCEPT !.current_hsps = Append(@, X_Hsp(p, k))]

\* Hit(...); ord is an auxiliary stamp, the ordinal k of the </Hit_hsps> line
X_Hit(p, k) ==
    [hit_num |-> p.hit_num, hit_id |-> p.hit_id, hit_def |-> p.hit_def,
     hit_accession |-> p.hit_accession, hit_len |-> p.hit_len,
     hsps |-> p.current_hsps, ord |-> k]

\* BlastXMLParser._finalize_hit
X_finalize_hit(p, k) == [p EXCEPT !.current_hits = Append(@, X_Hit(p, k))]

\* QueryResult(iter_num, query_id, query_def, query_len, hits, message)
X_QueryResult(p) ==
    [iter_num |-> p.iter_num, query_id |-> p.query_id, query_def |-> p.query_def,
     query_len |-> p.query_len, hits |-> p.current_hits, message |-> p.message]

\* variant of _finalize_query without the identifier guard
X_finalize_query_noguard(p) == [p |-> p, res |-> <<X_QueryResult(p)>>]

\* BlastXMLParser._finalize_query: the working state is left as it is
X_finalize_query(p) ==
    IF p.query_id = <<>>
    THEN [p |-> p, res |-> None]
    ELSE [p |-> p, res |-> <<X_QueryResult(p)>>]

\* BlastXMLParser._scan_for_iteration
X_scan_for_iteration(p, line, k) ==
    LET f == X_finalize_query(p)
    IN  IF StartsWith(line, Tag("Iteration"))
        THEN EmittingThenWriting(
                 [X_reset_query_state(f.p) EXCEPT !.state = "in_iteration"], f.res)
        ELSE Quiet(p)

\* variant of the conversion that leaves the field at 0 when int() fails
X_set_int_default(p, field, line) ==
    LET v == ParseInt(X_extract_content(line))
    IN  Quiet([p EXCEPT ![field] = v.val])

\* self.<field> = int(self._extract_content(line))
X_set_int(p, field, line) ==
    LET v == ParseInt(X_extract_content(line))
    IN  IF v.ok THEN Quiet([p EXCEPT ![field] = v.val]) ELSE Raised(p)

\* self.<field> = self._extract_content(line)
X_set_str(p, field, line) == Quiet([p EXCEPT ![field] = X_extract_content(line)])

\* BlastXMLParser._in_iteration
X_in_iteration(p, line, k) ==
    IF StartsWith(line, Tag("Iteration_iter-num")) THEN X_set_int(p, "iter_num", line)
    ELSE IF StartsWith(line, Tag("Iteration_query-ID")) THEN X_set_str(p, "query_id", line)
    ELSE IF StartsWith(line, Tag("Iteration_query-def")) THEN X_set_str(p, "query_def", line)
    ELSE IF StartsWith(line, Tag("Iteration_query-len")) THEN X_set_int(p, "query_len", line)
    ELSE IF StartsWith(line, Tag("Iteration_hits"))
    THEN Quiet([p EXCEPT !.state = "scan_for_hit"])
    ELSE IF StartsWith(line, Tag("Iteration_message")) THEN X_set_str(p, "message", line)
    ELSE Quiet(p)

\* variant of _scan_for_hit that tests the no-hits condition first
X_scan_for_hit_nohitsfirst(p, line, k) ==
    LET f == X_finalize_query(p)
    IN  IF Contains(line, NoHitsText) \/ p.message = NoHitsText
        THEN Emitting([f.p EXCEPT !.state = "scan_for_iteration"], f.res)
        ELSE IF StartsWith(line, Tag("Hit"))
        THEN Quiet([X_reset_hit_state(p) EXCEPT !.state = "in_hit"])
        ELSE IF StartsWith(line, CloseTag("Iteration_hits")) \/ StartsWith(line, CloseTag("Iteration"))
        THEN Emitting([f.p EXCEPT !.state = "scan_for_iteration"], f.res)
        ELSE Quiet(p)

\* BlastXMLParser._scan_for_hit
X_scan_for_hit(p, line, k) ==
    LET f == X_finalize_query(p)
    IN  IF StartsWith(line, Tag("Hit"))
        THEN Quiet([X_reset_hit_state(p) EXCEPT !.state = "in_hit"])
        ELSE IF StartsWith(line, CloseTag("Iteration_hits")) \/ StartsWith(line, CloseTag("Iteration"))
        THEN Emitting([f.p EXCEPT !.state = "scan_for_iteration"], f.res)
        ELSE IF Contains(line, NoHitsText) \/ p.message = NoHitsText
        THEN Emitting([f.p EXCEPT !.state = "scan_for_iteration"], f.res)
        ELSE Quiet(p)

\* BlastXMLParser._in_hit
X_in_hit(p, line, k) ==
    IF StartsWith(line, Tag("Hit_num")) THEN X_set_int(p, "hit_num", line)
    ELSE IF StartsWith(line, Tag("Hit_id")) THEN X_set_str(p, "hit_id", line)
    ELSE IF StartsWith(line, Tag("Hit_def")) THEN X_set_str(p, "hit_def", line)
    ELSE IF StartsWith(line, Tag("Hit_accession")) THEN X_set_str(p, "hit_accession", line)
    ELSE IF StartsWith(line, Tag("Hit_len")) THEN X_set_int(p, "hit_len", line)
    ELSE IF StartsWith(line, Tag("Hit_hsps"))
    THEN Quiet([p EXCEPT !.state = "scan_for_hsp"])
    ELSE Quiet(p)

\* BlastXMLParser._scan_for_hsp
X_scan_for_hsp(p, line, k) ==
    IF StartsWith(line, Tag("Hsp"))
    THEN Quiet([X_reset_hsp_state(p) EXCEPT !.state = "in_hsp"])
    ELSE IF StartsWith(line, CloseTag("Hit_hsps"))
    THEN Quiet([X_finalize_hit(p, k) EXCEPT !.state = "scan_for_hit"])
    ELSE Quiet(p)

\* BlastXMLParser._in_hsp
X_in_hsp(p, line, k) ==
    IF StartsWith(line, Tag("Hsp_bit-score")) THEN X_set_str(p, "hsp_bit_score", line)
    ELSE IF StartsWith(line, Tag("Hsp_score")) THEN X_set_str(p, "hsp_score", line)
    ELSE IF StartsWith(line, Tag("Hsp_evalue")) THEN X_set_str(p, "hsp_evalue", line)
    ELSE IF StartsWith(line, Tag("Hsp_query-from")) THEN X_set_int(p, "hsp_query_from", line)
    ELSE IF StartsWith(line, Tag("Hsp_query-to")) THEN X_set_int(p, "hsp_query_to", line)
    ELSE IF StartsWith(line, Tag("Hsp_hit-from")) THEN X_set_int(p, "hsp_hit_from", line)
    ELSE IF StartsWith(line, Tag("Hsp_hit-to")) THEN X_set_int(p, "hsp_hit_to", line)
    ELSE IF StartsWith(line, Tag("Hsp_identity")) THEN X_set_int(p, "hsp_identity", line)
    ELSE IF StartsWith(line, Tag("Hsp_positive")) THEN X_set_int(p, "hsp_positive", line)
    ELSE IF StartsWith(line, Tag("Hsp_gaps")) THEN X_set_int(p, "hsp_gaps", line)
    ELSE IF StartsWith(line, Tag("Hsp_align-len")) THEN X_set_int(p, "hsp_align_len", line)
    ELSE IF StartsWith(line, Tag("Hsp_qseq")) THEN X_set_str(p, "hsp_qseq", line)
    ELSE IF StartsWith(line, Tag("Hsp_hseq")) THEN X_set_str(p, "hsp_hseq", line)
    ELSE IF StartsWith(line, Tag("Hsp_midline")) THEN X_set_str(p, "hsp_midline", line)
    ELSE IF StartsWith(line, CloseTag("Hsp"))
    THEN Quiet([X_finalize_hsp(p, k) EXCEPT !.state = "scan_for_hsp"])
    ELSE Quiet(p)

\* hits=tuple(self.current_hits): what the record holds for its hits, 0 for
\* a new immutable object of its own, otherwise the identity of a list it shares
X_hits_handle(p) == 0

\* variant of parse that leaves out the final flush
X_parse_flush_skip(p) == [p |-> p, res |-> None]

\* BlastXMLParser.parse, after the loop: final = self._finalize_query()
X_parse_flush(p) == X_finalize_query(p)

\* self.state(line): the bound method held in self.state is called
X_dispatch(p, line, k) ==
    CASE p.state = "scan_for_iteration" -> X_scan_for_iteration(p, line, k)
      [] p.state = "in_iteration"       -> X_in_iteration(p, line, k)
      [] p.state = "scan_for_hit"       -> X_scan_for_hit(p, line, k)
      [] p.state = "in_hit"             -> X_in_hit(p, line, k)
      [] p.state = "scan_for_hsp"       -> X_scan_for_hsp(p, line, k)
      [] p.state = "in_hsp"             -> X_in_hsp(p, line, k)

(* ------------------------------- inputs -------------------------------- *)
\* <name>content</name> on one line
Elem(name, content) == Tag(name) \o content \o CloseTag(name)

\* lines of a text report, as read from the file
LQ1       == <<"Query", "=", " ", "Z0001", " ", "sample", " ", "protein">>
LQ2       == <<"Query", "=", " ", "Z0002", " ", "kinase">>
LQNoHits  == <<"Query", "=", " ", "Z0002", " ", "No", " ", "hits", " ", "found">>
LLen120   == <<"Length", "=", "120">>
LLen55    == <<"Length", "=", "55">>
LLenBad   == <<"Length", "=", "abc">>
LS1       == <<">", "sub1", " ", "desc">>
LE200     == <<"Expect", "=", "1e-200">>
LE320     == <<" ", "Score", " ", "=", " ", "55", ",", " ", "Expect", " ", "=", " ",
               "1e-320", ",", " ", "Method">>
LNoHits   == <<"No", " ", "hits", " ", "found">>
LBlank    == <<" ">>
LOther    == <<"Database">>

TLines == {LQ1, LQ2, LQNoHits, LLen120, LLen55, LLenBad, LS1, LE200, LE320,
           LNoHits, LBlank, LOther}

\* lines of an XML report, as read from the file
XIter     == Tag("Iteration")
XIterEnd  == CloseTag("Iteration")
XHits     == <<" ">> \o Tag("Iteration_hits")
XHitsEnd  == CloseTag("Iteration_hits")
XHitsBoth == Tag("Iteration_hits") \o CloseTag("Iteration_hits")
XHit      == Tag("Hit")
XHitEnd   == CloseTag("Hit")
XHsps     == Tag("Hit_hsps")
XHspsEnd  == CloseTag("Hit_hsps")
XHsp      == Tag("Hsp")
XHspEnd   == CloseTag("Hsp")
XId1      == Elem("Iteration_query-ID", <<"Q1">>)
XId2      == Elem("Iteration_query-ID", <<"Q2">>)
XIdEmpty  == Elem("Iteration_query-ID", <<>>)
XLen      == Elem("Iteration_query-len", <<"120">>)
XLenBad   == Elem("Iteration_query-len", <<"abc">>)
XMsg      == Elem("Iteration_message", NoHitsText)
XHitId    == Elem("Hit_id", <<"sub1">>)
XHitLenBad == Elem("Hit_len", <<>>)
XEv200    == Elem("Hsp_evalue", <<"1e-200">>)
XEv320    == Elem("Hsp_evalue", <<"1e-320">>)
XIdentBad == Elem("Hsp_identity", <<"1e-200">>)
XOther    == Tag("Statistics")

XLines == {XIter, XIterEnd, XHits, XHitsEnd, XHitsBoth, XHit, XHitEnd, XHsps,
           XHspsEnd, XHsp, XHspEnd, XId1, XId2, XIdEmpty, XLen, XLenBad, XMsg,
           XHitId, XHitLenBad, XEv200, XEv320, XIdentBad, XOther}

(* -------------------------------- state -------------------------------- *)
VARIABLES
    variant,   \* "text": a BlastParser instance, "markup": a BlastXMLParser
    pc,        \* "idle", "lines" (inside the line loop), "done", "error"
    running,   \* the generator of the running parse() executes (the consumer has asked for the next record)
    tp,        \* the BlastParser instance
    xp,        \* the BlastXMLParser instance
    out,       \* records the running parse() has yielded, in order
    nlines,    \* lines the instance has consumed
    nparse,    \* parse() calls made on the instance
    outLog,    \* history: for each yielded record: why, blocks and pending at that step
    consec,    \* history: results of the _finalize_query calls since a working field was last written
    pending,   \* history: an identifier was captured and no record yielded since
    blocks,    \* history: subject blocks completed since the last query header
    wf,        \* history: the input read so far against the well-formed grammar
    scen,      \* history: how far the input read so far follows each scenario
    lastBad,   \* history: the line read last held a malformed number for its state
    evlog,     \* history: <<ord, e-value written on the input line>> of each hit / HSP still held or yielded
    ext,       \* a call of _extract_content on its own: the line, the result, whether it returned
    captured,  \* history, first parse(): identifiers captured (.ids) and those replaced while held before any record (.replaced)
    lin,       \* history, first parse() of a markup instance: which completed HSPs and hits lie inside the open hit / iteration
    curEv      \* history: e-value written on the last Hsp_evalue line of the HSP being read

vars == <<lin, variant, pc, running, tp, xp, out, nlines, nparse, outLog, consec, pending,
          blocks, wf, scen, lastBad, evlog, curEv, captured, ext>>

(* ------------------- history: the well-formed inputs ------------------- *)
\* Which single marker a stripped text line matches: "other" when it matches
\* none of the five patterns, "mixed" when it matches more than one.
TKind(line) ==
    LET K == {k \in {"query", "subject", "length", "expect", "nohits"} :
                 \/ k = "query"   /\ Q_PATTERN(line).ok
                 \/ k = "subject" /\ S_PATTERN(line).ok
                 \/ k = "length"  /\ LEN_PATTERN(line).ok
                 \/ k = "expect"  /\ EVAL_PATTERN(line).ok
                 \/ k = "nohits"  /\ NO_HIT_PATTERN(line)}
    IN  IF K = {} THEN "other"
        ELSE IF Cardinality(K) = 1 THEN CHOOSE k \in K : TRUE
        ELSE "mixed"

WfInit == [st |-> "start", ids |-> <<>>, cur |-> <<>>]
WfBad(w) == [w EXCEPT !.st = "bad"]

\* Text grammar: query header, continuation lines, Length=, then either
\* 'No hits found' or one or more blocks of subject header, Length=, Expect=;
\* lines matching no marker may stand anywhere in between.
WfT(w, line) ==
    LET k == TKind(line)
        newq == [w EXCEPT !.st = "q", !.ids = Append(@, Q_PATTERN(line).g1)]
    IN  IF k = "other" /\ w.st # "bad" THEN w
        ELSE CASE w.st = "start" /\ k = "query"   -> newq
               [] w.st = "q"     /\ k = "length"  -> [w EXCEPT !.st = "qlen"]
               [] w.st = "qlen"  /\ k = "nohits"  -> [w EXCEPT !.st = "empty"]
               [] w.st = "qlen"  /\ k = "subject" -> [w EXCEPT !.st = "s"]
               [] w.st = "s"     /\ k = "length"  -> [w EXCEPT !.st = "slen"]
               [] w.st = "slen"  /\ k = "expect"  -> [w EXCEPT !.st = "hit"]
               [] w.st = "hit"   /\ k = "subject" -> [w EXCEPT !.st = "s"]
               [] w.st = "hit"   /\ k = "query"   -> newq
               [] w.st = "empty" /\ k = "query"   -> newq
               [] OTHER -> WfBad(w)

\* the text input read so far is N >= 1 complete well-formed queries
WfTComplete(w) == w.st \in {"hit", "empty"}

IterIntFields == {"Iteration_iter-num", "Iteration_query-len"}
IterStrFields == {"Iteration_query-def"}
HitIntFields  == {"Hit_num", "Hit_len"}
HitStrFields  == {"Hit_id", "Hit_def", "Hit_accession"}
HspIntFields  == {"Hsp_query-from", "Hsp_query-to", "Hsp_hit-from", "Hsp_hit-to",
                  "Hsp_identity", "Hsp_positive", "Hsp_gaps", "Hsp_align-len"}
HspStrFields  == {"Hsp_bit-score", "Hsp_score", "Hsp_evalue", "Hsp_qseq",
                  "Hsp_hseq", "Hsp_midline"}

\* the opening tags _in_iteration, _in_hit and _in_hsp test for
InIterationTags ==
    IterIntFields \cup IterStrFields
        \cup {"Iteration_query-ID", "Iteration_hits", "Iteration_message"}
InHitTags == HitIntFields \cup HitStrFields \cup {"Hit_hsps"}
InHspTags == HspIntFields \cup HspStrFields

\* a field line of one of the named elements, numeric ones holding an integer
FieldLine(line, ints, strs) ==
    \/ \E n \in strs : StartsWith(line, Tag(n))
    \/ \E n \in ints : StartsWith(line, Tag(n)) /\ ParseInt(X_extract_content(line)).ok

\* an Iteration_query-ID line with a non-empty identifier
IdLine(line) ==
    StartsWith(line, Tag("Iteration_query-ID")) /\ X_extract_content(line) # <<>>

\* Markup grammar: <Iteration>, field lines including a non-empty
\* Iteration_query-ID, <Iteration_hits>, complete hit blocks,
\* </Iteration_hits>, </Iteration>.
WfX(w, line) ==
    CASE w.st \in {"start", "closed"} /\ line = Tag("Iteration")
            -> [w EXCEPT !.st = "iter", !.cur = <<>>]
      [] w.st = "iter" /\ IdLine(line)
            -> [w EXCEPT !.cur = X_extract_content(line)]
      [] w.st = "iter" /\ FieldLine(line, IterIntFields, IterStrFields) -> w
      [] w.st = "iter" /\ w.cur # <<>> /\ line = Tag("Iteration_hits")
            -> [w EXCEPT !.st = "hits"]
      [] w.st = "hits" /\ line = Tag("Hit") -> [w EXCEPT !.st = "hit"]
      [] w.st = "hits" /\ line = CloseTag("Iteration_hits")
            -> [w EXCEPT !.st = "hitsend"]
      [] w.st = "hit" /\ FieldLine(line, HitIntFields, HitStrFields) -> w
      [] w.st = "hit" /\ line = Tag("Hit_hsps") -> [w EXCEPT !.st = "hsps"]
      [] w.st = "hsps" /\ line = Tag("Hsp") -> [w EXCEPT !.st = "hsp"]
      [] w.st = "hsps" /\ line = CloseTag("Hit_hsps") -> [w EXCEPT !.st = "hitend"]
      [] w.st = "hsp" /\ FieldLine(line, HspIntFields, HspStrFields) -> w
      [] w.st = "hsp" /\ line = CloseTag("Hsp") -> [w EXCEPT !.st = "hsps"]
      [] w.st = "hitend" /\ line = CloseTag("Hit") -> [w EXCEPT !.st = "hits"]
      [] w.st = "hitsend" /\ line = CloseTag("Iteration")
            -> [w EXCEPT !.st = "closed", !.ids = Append(@, w.cur)]
      [] OTHER -> WfBad(w)

\* the markup input read so far is N >= 1 complete well-formed iterations
WfXComplete(w) == w.st = "closed"

(* ------------------------ history: the scenarios ----------------------- *)
\* Scenario A (text): header, Length=120, 'No hits found'
ScenarioA == <<LQ1, LLen120, LNoHits>>
\* Scenario C (markup): iteration, identifier Q1, an Iteration_hits element
\* closing at once, then the 'No hits found' message
ScenarioC == <<XIter, XId1, XHitsBoth, XMsg>>
\* the same with the Iteration_hits element on two lines
ScenarioC2 == <<XIter, XId1, XHits, XHitsEnd, XMsg>>

Scenarios == [A |-> ScenarioA, C |-> ScenarioC, C2 |-> ScenarioC2]

\* n lines of sc were read and nothing else (-1: the input has left sc)
Follow(n, sc, raw) ==
    IF n >= 0 /\ n < Len(sc) /\ sc[n + 1] = raw THEN n + 1 ELSE 0 - 1

ScenInit == [A |-> 0, C |-> 0, C2 |-> 0]
ScenOff  == [A |-> 0 - 1, C |-> 0 - 1, C2 |-> 0 - 1]
ScenStep(sn, raw) == [x \in {"A", "C", "C2"} |-> Follow(sn[x], Scenarios[x], raw)]

(* ----------------------- history: line processing ---------------------- *)
\* the line is processed as a query header (ScanForQuery, or the fallback
\* of ScanForSubject)
THeaderProcessed(state, line) ==
    /\ Q_PATTERN(line).ok
    /\ \/ state = "scan_for_query"
       \/ state = "scan_for_subject" /\ ~NO_HIT_PATTERN(line) /\ ~S_PATTERN(line).ok

\* the line is a 'No hits found' line processed in ScanForSubject
TNoHitsProcessed(state, line) == state = "scan_for_subject" /\ NO_HIT_PATTERN(line)

\* the line is an Expect= line processed in ScanForEval: it completes a block
TBlockCompleted(state, line) == state = "scan_for_eval" /\ EVAL_PATTERN(line).ok

\* the line is an identifier line processed in InIteration
XIdProcessed(state, line) ==
    state = "in_iteration" /\ StartsWith(line, Tag("Iteration_query-ID"))

\* the line is a numeric field line of the state that reads it and its
\* content is empty or not an integer
XBadNumeric(state, line) ==
    LET ints == CASE state = "in_iteration" -> IterIntFields
                  [] state = "in_hit"       -> HitIntFields
                  [] state = "in_hsp"       -> HspIntFields
                  [] OTHER                  -> {}
    IN  /\ \E n \in ints : StartsWith(line, Tag(n))
        /\ ~ParseInt(X_extract_content(line)).ok

\* the line carries the Length= marker, is processed in ExtendQuery or
\* ExtendSubject, and what follows the marker is not an integer
TBadLength(state, line) ==
    /\ state \in {"extend_query", "extend_subject"}
    /\ \E i \in 1..Len(line) - 1 : line[i] = "Length" /\ line[i + 1] = "="
    /\ \A i \in 1..Len(line) - 1 :
           (line[i] = "Length" /\ line[i + 1] = "=")
               => (i + 2 > Len(line) \/ line[i + 2] \notin DigitToks)

\* the e-value as it is written on an input line of the vocabulary
EvalueWritten(raw) ==
    CASE raw \in {LE200, XEv200} -> <<"1e-200">>
      [] raw \in {LE320, XEv320} -> <<"1e-320">>
      [] OTHER                   -> <<>>

\* the line is an Hsp_evalue line processed in InHsp
XEvalueProcessed(state, line) ==
    state = "in_hsp" /\ StartsWith(line, Tag("Hsp_evalue"))

\* the line is the </Hsp> line processed in InHsp: it completes an HSP
XHspCompleted(state, line) ==
    /\ state = "in_hsp" /\ StartsWith(line, CloseTag("Hsp"))
    /\ \A n \in InHspTags : ~StartsWith(line, Tag(n))

\* the hits of a sequence of records / the HSPs of a sequence of hits
HitsOf(o) == UNION {{o[i].hits[j] : j \in 1..Len(o[i].hits)} : i \in 1..Len(o)}
HspsOf(hits) == UNION {{hits[j].hsps[n] : n \in 1..Len(hits[j].hsps)} : j \in 1..Len(hits)}

\* the stamps of the hits (text) / HSPs (markup) the instance or a yielded
\* record of the running parse still holds
TOrds(p, o) == {h.ord : h \in {p.hits[j] : j \in 1..Len(p.hits)} \cup HitsOf(o)}
XOrds(p, o) ==
    {s.ord : s \in {p.current_hsps[n] : n \in 1..Len(p.current_hsps)}
                  \cup HspsOf(p.current_hits)
                  \cup UNION {HspsOf(o[i].hits) : i \in 1..Len(o)}}
Kept(log, ords) == {e \in log : e[1] \in ords}

\* no call of _extract_content on its own
ExtIdle == [line |-> <<>>, res |-> <<>>, done |-> FALSE]

\* identifiers captured in the first parse() of an instance
CapInit == [ids |-> {}, replaced |-> {}]

\* the identifier id is written over the held identifier, which no record
\* yielded at this step carries (held is empty when one does)
CapStep(c, held, id) ==
    [ids      |-> IF id # <<>> THEN c.ids \cup {id} ELSE c.ids,
     replaced |-> IF held # <<>> /\ held # id THEN c.replaced \cup {held}
                  ELSE c.replaced]

\* variant of the loop body that hands the record over without suspending
Yields_never(res) == FALSE

\* if result is not None: yield result -- the generator is suspended at the
\* yield until the consumer asks for the next record
Yields(res) == res # None

\* The yielded records o as the consumer sees them once the list object obj
\* holds hits: a record that shares that list shows its present contents.
Seen(o, log, obj, hits) ==
    [i \in 1..Len(o) |->
        IF log[i].ref = obj THEN [o[i] EXCEPT !.hits = hits] ELSE o[i]]

\* _scan_for_iteration reads <Iteration>: a new iteration is opened
XIterationOpened(state, line) ==
    state = "scan_for_iteration" /\ StartsWith(line, Tag("Iteration"))

\* _scan_for_hit reads <Hit>: a new hit is opened
XHitOpened(state, line) ==
    state = "scan_for_hit" /\ StartsWith(line, Tag("Hit"))

\* _scan_for_hsp reads </Hit_hsps>: the open hit is completed
XHitCompleted(state, line) ==
    /\ state = "scan_for_hsp" /\ ~StartsWith(line, Tag("Hsp"))
    /\ StartsWith(line, CloseTag("Hit_hsps"))

\* the stamps of the hits an instance holds or has yielded
XHitOrds(p, o) ==
    {h.ord : h \in {p.current_hits[j] : j \in 1..Len(p.current_hits)} \cup HitsOf(o)}

\* lineage of the input read so far: .iter counts the <Iteration> lines that
\* opened an iteration, .hits are the lines whose </Hit_hsps> completed a hit
\* since the last of them, .hsps the lines whose </Hsp> completed an HSP since
\* the last <Hit> that opened a hit or </Hit_hsps> that completed one, .hitlog
\* holds <<line, .hsps at that line>> for each completed hit still held or
\* yielded
LinInit == [iter |-> 0, hits |-> {}, hsps |-> {}, hitlog |-> {}]

LinStep(l, state, line, k, q, o) ==
    LET m == IF XIterationOpened(state, line)
             THEN [l EXCEPT !.iter = @ + 1, !.hits = {}]
             ELSE IF XHitOpened(state, line)
             THEN [l EXCEPT !.hsps = {}]
             ELSE IF XHspCompleted(state, line)
             THEN [l EXCEPT !.hsps = @ \cup {k}]
             ELSE IF XHitCompleted(state, line)
             THEN [l EXCEPT !.hits = @ \cup {k}, !.hsps = {},
                            !.hitlog = @ \cup {<<k, l.hsps>>}]
             ELSE l
    IN  [m EXCEPT !.hitlog = Kept(@, XHitOrds(q, o))]

(* ------------------------------- actions ------------------------------- *)
Init ==
    /\ variant \in {"text", "markup"}
    /\ pc = "idle"
    /\ running = FALSE
    /\ tp = T_init
    /\ xp = X_init
    /\ out = <<>>
    /\ nlines = 0
    /\ nparse = 0
    /\ outLog = <<>>
    /\ consec = <<>>
    /\ pending = FALSE
    /\ blocks = 0
    /\ wf = WfInit
    /\ scen = ScenInit
    /\ lastBad = FALSE
    /\ evlog = {}
    /\ curEv = <<>>
    /\ captured = CapInit
    /\ lin = LinInit
    /\ ext = ExtIdle

\* parse(filename) is called: the generator is created and nothing of its
\* body has run yet; the monitors of the fresh-instance scenarios are
\* switched off on a second call
ParseStart ==
    /\ pc \in {"idle", "done", "error"}
    /\ nparse < MaxParses
    /\ pc' = "lines"
    /\ running' = FALSE
    /\ nparse' = nparse + 1
    /\ out' = <<>>
    /\ outLog' = <<>>
    /\ wf' = IF nparse = 0 THEN WfInit ELSE WfBad(WfInit)
    /\ scen' = IF nparse = 0 THEN ScenInit ELSE ScenOff
    /\ lastBad' = FALSE
    /\ evlog' = Kept(evlog, IF variant = "text" THEN TOrds(tp, <<>>) ELSE XOrds(xp, <<>>))
    /\ captured' = CapInit
    /\ lin' = LinInit
    /\ UNCHANGED <<ext, variant, tp, xp, nlines, consec, pending, blocks, curEv>>

\* the consumer asks the generator for the next record (next(), a for loop):
\* the body runs on from where it was suspended
Request ==
    /\ pc = "lines"
    /\ ~running
    /\ running' = TRUE
    /\ UNCHANGED <<lin, ext, variant, pc, tp, xp, out, nlines, nparse, outLog, consec,
                   pending, blocks, wf, scen, lastBad, evlog, curEv, captured>>

\* BlastParser.parse: one iteration of the line loop
TextStep ==
    /\ variant = "text"
    /\ pc = "lines"
    /\ running
    /\ nlines < MaxLinesT
    /\ \E raw \in TLines :
         LET line == Strip(raw)
             r    == T_dispatch(tp, line, nlines + 1)
         IN  /\ Len(r.p.query_annot) <= MaxAnnotLen
             /\ Len(r.p.subject_annot) <= MaxAnnotLen
             /\ tp' = r.p
             /\ running' = ~Yields(r.res)
             /\ out' = Seen(out, outLog, r.p.hits_obj, r.p.hits) \o r.res
             /\ outLog' = IF r.res = None THEN outLog
                          ELSE Append(outLog,
                                 [via |-> IF TNoHitsProcessed(tp.state, line)
                                          THEN "nohits" ELSE "header",
                                  blocks |-> blocks, pend |-> pending,
                                  ref |-> T_hits_handle(tp)])
             /\ consec' = r.fin
             /\ pending' = IF THeaderProcessed(tp.state, line) THEN TRUE
                           ELSE IF r.res # None THEN FALSE ELSE pending
             /\ blocks' = IF THeaderProcessed(tp.state, line)
                             \/ TNoHitsProcessed(tp.state, line) THEN 0
                          ELSE IF TBlockCompleted(tp.state, line) THEN blocks + 1
                          ELSE blocks
             /\ wf' = WfT(wf, line)
             /\ scen' = ScenStep(scen, raw)
             /\ lastBad' = TBadLength(tp.state, line)
             /\ captured' = IF nparse = 1 /\ THeaderProcessed(tp.state, line)
                            THEN CapStep(captured,
                                         IF r.res # None THEN <<>> ELSE tp.query_id,
                                         Q_PATTERN(line).g1)
                            ELSE captured
             /\ evlog' = Kept(IF TBlockCompleted(tp.state, line)
                              THEN evlog \cup {<<nlines + 1, EvalueWritten(raw)>>}
                              ELSE evlog,
                              TOrds(r.p, out \o r.res))
    /\ nlines' = nlines + 1
    /\ UNCHANGED <<lin, ext, variant, pc, xp, nparse, curEv>>

\* BlastParser.parse: the input is exhausted, the final flush; "done" also
\* stands for the generator suspended at the yield of the flush
TextEnd ==
    /\ variant = "text"
    /\ pc = "lines"
    /\ running
    /\ running' = FALSE
    /\ LET f == T_parse_flush(tp)
       IN  /\ tp' = f.p
           /\ out' = out \o f.res
           /\ outLog' = IF f.res = None THEN outLog
                        ELSE Append(outLog, [via |-> "flush", blocks |-> blocks,
                                             pend |-> pending,
                                             ref |-> T_hits_handle(tp)])
           /\ consec' = Append(consec, f.res)
    /\ pending' = FALSE
    /\ pc' = "done"
    /\ UNCHANGED <<lin, ext, variant, xp, nlines, nparse, blocks, wf, scen, lastBad, evlog,
                   curEv, captured>>

\* BlastXMLParser.parse: one iteration of the line loop that does not raise
MarkupStep ==
    /\ variant = "markup"
    /\ pc = "lines"
    /\ running
    /\ nlines < MaxLinesX
    /\ \E raw \in XLines :
         LET line == Strip(raw)
             r    == X_dispatch(xp, line, nlines + 1)
         IN  /\ ~r.err
             /\ xp' = r.p
             /\ running' = ~Yields(r.res)
             /\ out' = Seen(out, outLog, r.p.hits_obj, r.p.current_hits) \o r.res
             /\ outLog' = IF r.res = None THEN outLog
                          ELSE Append(outLog, [via |-> "line", blocks |-> 0,
                                               pend |-> pending,
                                               ref |-> X_hits_handle(xp),
                                             iter |-> lin.iter, since |-> lin.hits])
             /\ consec' = r.fin
             /\ pending' = IF XIdProcessed(xp.state, line)
                           THEN X_extract_content(line) # <<>>
                           ELSE IF r.res # None \/ r.p.query_id = <<>> THEN FALSE
                           ELSE pending
             /\ wf' = WfX(wf, line)
             /\ scen' = ScenStep(scen, raw)
             /\ lastBad' = XBadNumeric(xp.state, line)
             /\ evlog' = Kept(IF XHspCompleted(xp.state, line)
                              THEN evlog \cup {<<nlines + 1, curEv>>}
                              ELSE evlog,
                              XOrds(r.p, out \o r.res))
             /\ captured' = IF nparse = 1 /\ XIdProcessed(xp.state, line)
                            THEN CapStep(captured,
                                         IF r.res # None THEN <<>> ELSE xp.query_id,
                                         X_extract_content(line))
                            ELSE captured
             /\ lin' = IF nparse = 1
                       THEN LinStep(lin, xp.state, line, nlines + 1, r.p, out \o r.res)
                       ELSE lin
             /\ curEv' = IF r.p.state # "in_hsp" \/ xp.state # "in_hsp" THEN <<>>
                         ELSE IF XEvalueProcessed(xp.state, line)
                         THEN EvalueWritten(raw)
                         ELSE curEv
    /\ nlines' = nlines + 1
    /\ UNCHANGED <<ext, variant, pc, tp, nparse, blocks>>

\* BlastXMLParser.parse: int() raises ValueError on the line; the generator
\* ends with the error and nothing is yielded
MarkupFail ==
    /\ variant = "markup"
    /\ pc = "lines"
    /\ running
    /\ running' = FALSE
    /\ nlines < MaxLinesX
    /\ \E raw \in XLines :
         LET line == Strip(raw)
             r    == X_dispatch(xp, line, nlines + 1)
         IN  /\ r.err
             /\ xp' = r.p
             /\ wf' = WfBad(wf)
             /\ scen' = ScenStep(scen, raw)
             /\ lastBad' = XBadNumeric(xp.state, line)
    /\ nlines' = nlines + 1
    /\ consec' = <<>>
    /\ pc' = "error"
    /\ UNCHANGED <<lin, ext, variant, tp, out, nparse, outLog, pending, blocks, evlog, curEv,
                   captured>>

\* BlastXMLParser.parse: the input is exhausted, the final flush
MarkupEnd ==
    /\ variant = "markup"
    /\ pc = "lines"
    /\ running
    /\ running' = FALSE
    /\ LET f == X_parse_flush(xp)
       IN  /\ xp' = f.p
           /\ out' = out \o f.res
           /\ outLog' = IF f.res = None THEN outLog
                        ELSE Append(outLog, [via |-> "flush", blocks |-> 0,
                                             pend |-> pending,
                                             ref |-> X_hits_handle(xp),
                                             iter |-> lin.iter, since |-> lin.hits])
           /\ consec' = Append(consec, f.res)
    /\ pending' = FALSE
    /\ pc' = "done"
    /\ UNCHANGED <<lin, ext, variant, tp, nlines, nparse, blocks, wf, scen, lastBad, evlog,
                   curEv, captured>>

Next == ParseStart \/ Request \/ TextStep \/ TextEnd \/ MarkupStep \/ MarkupFail \/ MarkupEnd

Spec == Init /\ [][Next]_vars

(* --------------------- _extract_content on its own --------------------- *)
\* the lines of at most n tokens over '<', '>' and a word
ExtractLines(n) == UNION {[1..m -> {"<", ">", "x"}] : m \in 0..n}

\* a markup parser as constructed, and a line to extract from
ExtractInit ==
    /\ variant = "markup"
    /\ pc = "idle"
    /\ running = FALSE
    /\ tp = T_init
    /\ xp = X_init
    /\ out = <<>>
    /\ nlines = 0
    /\ nparse = 0
    /\ outLog = <<>>
    /\ consec = <<>>
    /\ pending = FALSE
    /\ blocks = 0
    /\ wf = WfInit
    /\ scen = ScenInit
    /\ lastBad = FALSE
    /\ evlog = {}
    /\ curEv = <<>>
    /\ captured = CapInit
    /\ lin = LinInit
    /\ \E l \in ExtractLines(MaxExtractLen) :
           ext = [line |-> l, res |-> <<>>, done |-> FALSE]

\* self._extract_content(line) is called and returns
ExtractCall ==
    /\ ~ext.done
    /\ ext' = [ext EXCEPT !.res = X_extract_content(ext.line), !.done = TRUE]
    /\ UNCHANGED <<lin, variant, pc, running, tp, xp, out, nlines, nparse, outLog,
                   consec, pending, blocks, wf, scen, lastBad, evlog, curEv,
                   captured>>

ExtractNext == ExtractCall

ExtractSpec == ExtractInit /\ [][ExtractNext]_vars

(* ------------------------------ properties ----------------------------- *)
\* identifiers of a sequence of records, in order
Ids(o) == [i \in 1..Len(o) |-> o[i].query_id]

\* the ord stamps of a sequence strictly increase
Increasing(q) == \A i, j \in 1..Len(q) : i < j => q[i].ord < q[j].ord

\* the working fields of a BlastParser instance (everything but the state)
TWorking(p) ==
    <<p.query_id, p.query_annot, p.query_len, p.subject_length, p.subject_id,
      p.subject_annot, p.hits>>

\* C1 (as claimed): markup variant, fresh instance: when the input read to
\* exhaustion is N >= 1 well-formed iteration blocks, the records yielded are
\* exactly one per iteration, in input order.
C1_OnePerIteration ==
    (variant = "markup" /\ pc = "done" /\ nparse = 1 /\ WfXComplete(wf))
        => Ids(out) = wf.ids

C3_FinalizeOnce ==
    variant = "markup" =>
        /\ X_finalize_query(X_finalize_query(xp).p).res = None
        /\ \A i \in 2..Len(consec) : consec[i] = None

\* C4 (as claimed): text variant: _finalize_query returns no record before
\* any line is read; in every reachable parser state the first of two
\* consecutive calls leaves the whole working state at its initial empty
\* values and the second returns no record.
C4_FinalizeResets ==
    variant = "text" =>
        /\ nlines = 0 => T_finalize_query(tp).res = None
        /\ TWorking(T_finalize_query(tp).p) = TWorking(T_init)
        /\ T_finalize_query(T_finalize_query(tp).p).res = None
        /\ \A i \in 2..Len(consec) : consec[i] = None

\* The same holds as long as the instance is in its first parse() call: the
\* working state is dirty with no identifier held only on a reused instance.
FirstParse_FinalizeResets == nparse <= 1 => C4_FinalizeResets

\* C5: both parsers: every record yielded by parse has a non-empty query
\* identifier.
C5_IdentifierNonEmpty ==
    \A i \in 1..Len(out) : out[i].query_id # <<>>

C5_Witness ==
    /\ variant = "markup" /\ pc = "done" /\ Len(out) >= 1
    /\ xp.query_id # <<>>

\* the identifier the instance holds
CurId == IF variant = "text" THEN tp.query_id ELSE xp.query_id

\* C6: both parsers: when the input ends while a captured identifier has not
\* been yielded yet, the final flush yields exactly one further record, for
\* that identifier, and parse ends.
C6_FlushYieldsPending ==
    [][(pc = "lines" /\ pc' = "done" /\ pending)
          => /\ Len(out') = Len(out) + 1
             /\ SubSeq(out', 1, Len(out)) = out
             /\ out'[Len(out')].query_id = CurId]_vars

C6_Witness ==
    /\ variant = "markup" /\ pc = "done" /\ xp.state \in {"in_hit", "in_hsp"}
    /\ Len(outLog) >= 1
    /\ outLog[Len(outLog)].via = "flush" /\ outLog[Len(outLog)].pend

ScenarioARecord ==
    [query_id |-> <<"Z0001">>, query_annot |-> <<"sample", " ", "protein">>,
     query_len |-> 120, hits |-> <<>>]

\* C8 (as claimed): text variant: a record yielded for a 'No hits found'
\* line has no hits, every other record has as many hits as subject blocks
\* were completed since its query header, and Scenario A yields exactly its
\* one record.
C8_HitCount ==
    variant = "text" =>
        /\ \A i \in 1..Len(out) :
              IF outLog[i].via = "nohits"
              THEN out[i].hits = <<>>
              ELSE Len(out[i].hits) = outLog[i].blocks
        /\ (pc = "done" /\ scen.A = Len(ScenarioA)) => out = <<ScenarioARecord>>

\* The same holds as long as the instance is in its first parse() call: hits
\* completed before the header reach a record only on a reused instance.
FirstParse_HitCount == nparse <= 1 => C8_HitCount

\* C9 (as claimed): markup variant: every yielded record whose message is
\* 'No hits found' has an empty hits tuple.
C9_NoHitsMessageNoHits ==
    variant = "markup" =>
        \A i \in 1..Len(out) : out[i].message = NoHitsText => out[i].hits = <<>>

\* C10 (as claimed): markup variant, Scenario C: the record yielded for Q1
\* has hits = () and message = 'No hits found'.
C10_ScenarioC ==
    (variant = "markup" /\ pc = "done"
        /\ (scen.C = Len(ScenarioC) \/ scen.C2 = Len(ScenarioC2)))
        => /\ Len(out) >= 1
           /\ \A i \in 1..Len(out) :
                 /\ out[i].query_id = <<"Q1">>
                 /\ out[i].hits = <<>>
                 /\ out[i].message = NoHitsText

TNoCheckHolds(p, line) ==
    CASE p.state = "scan_for_query"   -> ~Q_PATTERN(line).ok
      [] p.state = "extend_query"     -> ~LEN_PATTERN(line).ok
      [] p.state = "scan_for_subject" ->
             ~NO_HIT_PATTERN(line) /\ ~S_PATTERN(line).ok /\ ~Q_PATTERN(line).ok
      [] p.state = "extend_subject"   -> ~LEN_PATTERN(line).ok /\ Strip(line) = <<>>
      [] p.state = "scan_for_eval"    -> ~EVAL_PATTERN(line).ok

\* none of the tag and condition tests of the handler of state p.state holds
\* for the line (markup variant)
XNoCheckHolds(p, line) ==
    CASE p.state = "scan_for_iteration" -> ~StartsWith(line, Tag("Iteration"))
      [] p.state = "in_iteration" ->
             \A n \in InIterationTags : ~StartsWith(line, Tag(n))
      [] p.state = "scan_for_hit" ->
             /\ ~StartsWith(line, Tag("Hit"))
             /\ ~StartsWith(line, CloseTag("Iteration_hits"))
             /\ ~StartsWith(line, CloseTag("Iteration"))
             /\ ~Contains(line, NoHitsText) /\ p.message # NoHitsText
      [] p.state = "in_hit" -> \A n \in InHitTags : ~StartsWith(line, Tag(n))
      [] p.state = "scan_for_hsp" ->
             ~StartsWith(line, Tag("Hsp")) /\ ~StartsWith(line, CloseTag("Hit_hsps"))
      [] p.state = "in_hsp" ->
             /\ \A n \in InHspTags : ~StartsWith(line, Tag(n))
             /\ ~StartsWith(line, CloseTag("Hsp"))

\* processing the line in the present state raises nothing, yields nothing and
\* leaves the state and every working field as they are
Ignored(raw) ==
    IF variant = "text"
    THEN T_dispatch(tp, Strip(raw), nlines + 1) = Quiet(tp)
    ELSE X_dispatch(xp, Strip(raw), nlines + 1) = Quiet(xp)

NoCheckHolds(raw) ==
    IF variant = "text" THEN TNoCheckHolds(tp, Strip(raw))
    ELSE XNoCheckHolds(xp, Strip(raw))

AnyLine == IF variant = "text" THEN TLines ELSE XLines

\* C12 (as claimed): both variants: in every state, a line for which none of
\* the state's marker and condition tests holds is ignored: no error, no
\* record, the state and every working field unchanged.
C12_UnrecognisedIgnored ==
    \A raw \in AnyLine : NoCheckHolds(raw) => Ignored(raw)

\* C12 (amended): the same in every state but the text variant's ExtendQuery,
\* where every line without a Length= match is appended to the annotation.
C12_IgnoredOutsideExtendQuery ==
    (variant = "text" => tp.state # "extend_query") => C12_UnrecognisedIgnored

\* lines have been read on a fresh text instance and it is still exactly as
\* constructed; a markup instance in InHsp has read more lines than the five
\* that lead there and has completed no iteration, hit or HSP
C12_Witness ==
    /\ pc = "lines" /\ nparse = 1 /\ nlines >= 6 /\ out = <<>>
    /\ \/ variant = "text" /\ tp = T_init
       \/ /\ variant = "markup" /\ xp.state = "in_hsp"
          /\ xp.current_hits = <<>> /\ xp.current_hsps = <<>>
          /\ xp.hits_obj = X_init.hits_obj + 1
          /\ \A f \in {"iter_num", "query_id", "query_def", "query_len", "message",
                       "hit_num", "hit_id", "hit_def", "hit_accession", "hit_len"} :
                 xp[f] = X_init[f]

\* C13: markup variant: when a numeric field line is processed in the state
\* that reads it and its content is empty or not an integer, the parse() call
\* fails at that line: no field is written, nothing is yielded at that line,
\* and the call yields nothing afterwards, the query in progress included.
C13_MalformedNumberFatal ==
    [][variant = "markup" =>
          /\ lastBad' => (pc' = "error" /\ xp' = xp /\ out' = out)
          /\ pc = "error" => (nparse' = nparse + 1 /\ pc' = "lines")]_vars

\* the call failed on the Hit_len line of a second hit while a query with one
\* completed hit was in progress
C13_Witness ==
    /\ variant = "markup" /\ pc = "error" /\ lastBad
    /\ xp.state = "in_hit" /\ xp.query_id # <<>> /\ Len(xp.current_hits) = 1
    /\ out = <<>>

\* C14 (as claimed): text variant: when a line carrying the Length= marker is
\* processed in ExtendQuery or ExtendSubject and what follows the marker is
\* not an integer, the parse() call fails at that line; the line is not
\* taken as annotation and the parse does not go on.
C14_BadLengthFatal ==
    (variant = "text" /\ lastBad) => pc = "error"

\* C15: both variants: the evalue of every hit (text) / HSP (markup) of a
\* yielded record is, token for token, the e-value written on the Expect= /
\* Hsp_evalue line of its block, a string that was never converted.
C15_EvaluePreserved ==
    IF variant = "text"
    THEN \A h \in HitsOf(out) : <<h.ord, h.evalue>> \in evlog
    ELSE \A i \in 1..Len(out) : \A s \in HspsOf(out[i].hits) :
             <<s.ord, s.evalue>> \in evlog

\* a yielded record holds the e-value 1e-320
C15_Witness ==
    LET E == IF variant = "text" THEN {h.evalue : h \in HitsOf(out)}
             ELSE UNION {{s.evalue : s \in HspsOf(out[i].hits)} : i \in 1..Len(out)}
    IN  <<"1e-320">> \in E

\* the identifiers of the records yielded by the running parse
OutIds == {out[i].query_id : i \in 1..Len(out)}

\* C16 (as claimed): both variants, fresh instance, input read to exhaustion
\* without error: every non-empty identifier captured into the working state
\* is the identifier of at least one yielded record.
C16_CapturedIsEmitted ==
    (pc = "done" /\ nparse = 1) => captured.ids \subseteq OutIds

\* C16 (amended): the same for every captured identifier that was not
\* replaced, while still held and before any record carried it, by a later
\* Iteration_query-ID line of the same iteration; the text variant never
\* replaces a held identifier.
C16_UnreplacedIsEmitted ==
    (pc = "done" /\ nparse = 1) =>
        /\ (captured.ids \ captured.replaced) \subseteq OutIds
        /\ variant = "text" => captured.replaced = {}

\* two different identifiers were captured and both were yielded
C16_Witness ==
    /\ pc = "done" /\ nparse = 1
    /\ Cardinality(captured.ids) = 2 /\ captured.replaced = {}
    /\ captured.ids \subseteq OutIds

\* C17 (as claimed): text variant, a line processed in ScanForSubject that
\* matches neither 'No hits found' nor a subject header: if it is a query
\* header, the pending query is yielded with exactly the hits completed so
\* far, the new identifier and annotation are captured into an otherwise
\* freshly reset working state and the state becomes ExtendQuery; if it is no
\* query header either, nothing is yielded and the state stays ScanForSubject.
C17_LookaheadFallback ==
    (variant = "text" /\ tp.state = "scan_for_subject") =>
        \A raw \in TLines :
            LET line == Strip(raw)
                m    == Q_PATTERN(line)
                r    == T_dispatch(tp, line, nlines + 1)
            IN  (~NO_HIT_PATTERN(line) /\ ~S_PATTERN(line).ok) =>
                    /\ ~r.err
                    /\ m.ok =>
                          /\ tp.query_id # <<>> =>
                                r.res = <<[query_id    |-> tp.query_id,
                                           query_annot |-> tp.query_annot,
                                           query_len   |-> tp.query_len,
                                           hits        |-> tp.hits]>>
                          /\ r.p.state = "extend_query"
                          /\ TWorking(r.p) = <<m.g1, m.g2, 0, 0, <<>>, <<>>, <<>>>>
                    /\ ~m.ok => (r.res = None /\ r.p.state = "scan_for_subject")

\* The same holds as long as the instance is in its first parse() call: only
\* a reused instance is in ScanForSubject with hits and no identifier.
FirstParse_LookaheadFallback == nparse <= 1 => C17_LookaheadFallback

\* an open-hit line that also carries the no-hits text
XHitNoHits == Tag("Hit") \o NoHitsText

\* the query-level working fields of a BlastXMLParser instance
XQueryFields(p) ==
    <<p.iter_num, p.query_id, p.query_def, p.query_len, p.message, p.current_hits>>

\* C18: markup variant, a line processed in ScanForHit: a line starting with
\* <Hit> always leads to InHit with the hit working state (HSP list included)
\* reset and yields nothing, whatever the line or the captured message says
\* about hits; any other line that closes the hits list or the iteration, or
\* is read while the captured message is 'No hits found', finalizes the
\* query (yielding its record when an identifier is held) and leads to
\* ScanForIteration.
C18_ScanForHitPrecedence ==
    (variant = "markup" /\ xp.state = "scan_for_hit") =>
        \A raw \in XLines \cup {XHitNoHits} :
            LET line == Strip(raw)
                r    == X_dispatch(xp, line, nlines + 1)
                rec  == [iter_num |-> xp.iter_num, query_id |-> xp.query_id,
                         query_def |-> xp.query_def, query_len |-> xp.query_len,
                         hits |-> xp.current_hits, message |-> xp.message]
            IN  /\ ~r.err
                /\ StartsWith(line, Tag("Hit")) =>
                      /\ r.res = None
                      /\ r.p.state = "in_hit"
                      /\ <<r.p.hit_num, r.p.hit_id, r.p.hit_def, r.p.hit_accession,
                           r.p.hit_len, r.p.current_hsps>>
                             = <<0, <<>>, <<>>, <<>>, 0, <<>>>>
                      /\ XQueryFields(r.p) = XQueryFields(xp)
                /\ (/\ ~StartsWith(line, Tag("Hit"))
                    /\ \/ StartsWith(line, CloseTag("Iteration_hits"))
                       \/ StartsWith(line, CloseTag("Iteration"))
                       \/ xp.message = NoHitsText) =>
                      /\ r.res = IF xp.query_id # <<>> THEN <<rec>> ELSE None
                      /\ r.p.state = "scan_for_iteration"

\* a <Hit> line was processed in ScanForHit although the captured message of
\* the iteration is 'No hits found'
C18_Witness ==
    /\ variant = "markup" /\ nparse = 1
    /\ xp.state = "in_hit" /\ xp.message = NoHitsText /\ xp.query_id # <<>>

\* C19: both variants: a step that reads one line yields at most one record;
\* lines are read only while a request of the consumer is being served; a
\* record is handed over at the very step that produced it and the generator
\* is then suspended, so no later line is read before the next request; of
\* the identifiers captured in a first parse at most one has not been handed
\* over yet.
C19_Streaming ==
    [][/\ Len(out') <= Len(out) + 1
       /\ nlines' # nlines => (running /\ nlines' = nlines + 1)
       /\ Len(out') > Len(out) => ~running'
       /\ nparse' = 1 =>
              Cardinality(captured'.ids \ (OutIds' \cup captured'.replaced)) <= 1]_vars

\* the generator is suspended inside the line loop with two records handed
\* over, and it holds the next query in progress
C19_Witness ==
    /\ pc = "lines" /\ ~running /\ nparse = 1
    /\ Len(out) = 2 /\ CurId # <<>> /\ CurId \notin OutIds

\* position g holds the first '>' of the line / position l holds its last '<'
FirstGt(line, g) == line[g] = ">" /\ \A i \in 1..g - 1 : line[i] # ">"
LastLt(line, l) == line[l] = "<" /\ \A i \in l + 1..Len(line) : line[i] # "<"

\* the last '<' lies after the first '>' with something between them
Enclosing(line) ==
    {gl \in (1..Len(line)) \X (1..Len(line)) :
        FirstGt(line, gl[1]) /\ LastLt(line, gl[2]) /\ gl[2] > gl[1] + 1}

\* C20: _extract_content returns what stands strictly between the first '>'
\* and the last '<' when the last '<' lies after the first '>' with at least
\* one character between them, and the empty string in every other case.
C20_ExtractContent ==
    ext.done =>
        /\ \A gl \in Enclosing(ext.line) :
               ext.res = [i \in 1..gl[2] - gl[1] - 1 |-> ext.line[gl[1] + i]]
        /\ Enclosing(ext.line) = {} => ext.res = <<>>

\* the call returned a non-empty content for a line of full length whose
\* first '>' is its second token
C20_Witness ==
    /\ ext.done /\ ext.res # <<>>
    /\ Len(ext.line) = MaxExtractLen /\ ext.line[1] = "<" /\ ext.line[2] = ">"

\* the call returned the empty string for a line whose only '<' comes before
\* its first '>'
C20_WitnessEmpty ==
    /\ ext.done /\ ext.res = <<>>
    /\ ext.line = <<"x", "<", "x", ">", "x">>

(* ------------------------- reuse of an instance ------------------------ *)
RECURSIVE T_run_from(_, _, _)
\* BlastParser.parse on an instance in state p: the records it yields for
\* the lines given, the final flush included
T_run_from(p, lines, k) ==
    IF lines = <<>> THEN T_parse_flush(p).res
    ELSE LET r == T_dispatch(p, Strip(Head(lines)), k)
         IN  r.res \o T_run_from(r.p, Tail(lines), k + 1)

T_run(p, lines) == T_run_from(p, lines, 1)

RECURSIVE X_run_from(_, _, _)
\* BlastXMLParser.parse on an instance in state p: the records it yields for
\* the lines given, and whether it ended by raising
X_run_from(p, lines, k) ==
    IF lines = <<>> THEN [out |-> X_parse_flush(p).res, err |-> FALSE]
    ELSE LET r == X_dispatch(p, Strip(Head(lines)), k)
         IN  IF r.err THEN [out |-> <<>>, err |-> TRUE]
             ELSE LET rest == X_run_from(r.p, Tail(lines), k + 1)
                  IN  [out |-> r.res \o rest.out, err |-> rest.err]

X_run(p, lines) == X_run_from(p, lines, 1)

\* the inputs of at most two lines over a vocabulary
ShortInputs(V) ==
    {<<>>} \cup {<<a>> : a \in V} \cup {<<a, b>> : a \in V, b \in V}

\* C21: after a parse has run to exhaustion, the final flush included, the
\* instance holds no pending data (identifier empty, hit list empty, state
\* the initial scanning state), so a second parse on it yields exactly the
\* records a fresh instance yields for the second input
C21_ReuseAfterParse ==
    pc = "done" =>
        IF variant = "text"
        THEN /\ tp.query_id = <<>>
             /\ tp.hits = <<>>
             /\ tp.state = T_init.state
             /\ \A s \in ShortInputs(TLines) : T_run(tp, s) = T_run(T_init, s)
        ELSE /\ xp.query_id = <<>>
             /\ xp.current_hits = <<>>
             /\ xp.state = X_init.state
             /\ \A s \in ShortInputs(XLines) : X_run(xp, s) = X_run(X_init, s)

(* --------------------- lineage in the markup variant ------------------- *)
\* the stamps of the records of a sequence
OrdsIn(s) == {s[n].ord : n \in 1..Len(s)}

\* the hits a markup instance holds and those in the records it has yielded
XHitsAround == {xp.current_hits[j] : j \in 1..Len(xp.current_hits)} \cup HitsOf(out)

\* C22: in the first parse of a markup instance, every Hsp of a hit (yielded
\* in a record, or completed and held) was completed by a </Hsp> line read
\* after that hit's <Hit> line and before its </Hit_hsps> line, every Hit of
\* a yielded record was completed by a </Hit_hsps> line read after the
\* <Iteration> line of that record's iteration, two different hits share no
\* HSP, and the records of two different iterations share no hit
C22_NoCrossParentLeak ==
    (variant = "markup" /\ nparse = 1) =>
        /\ \A h \in XHitsAround :
               /\ Cardinality(OrdsIn(h.hsps)) = Len(h.hsps)
               /\ \E e \in lin.hitlog : e[1] = h.ord /\ OrdsIn(h.hsps) \subseteq e[2]
        /\ \A i \in 1..Len(out) :
               /\ Cardinality(OrdsIn(out[i].hits)) = Len(out[i].hits)
               /\ OrdsIn(out[i].hits) \subseteq outLog[i].since
        /\ \A g, h \in XHitsAround :
               g.ord # h.ord => OrdsIn(g.hsps) \cap OrdsIn(h.hsps) = {}
        /\ \A i, j \in 1..Len(out) :
               outLog[i].iter # outLog[j].iter
                   => OrdsIn(out[i].hits) \cap OrdsIn(out[j].hits) = {}

\* a record with a hit of two HSPs has been yielded in the first parse
C22_Witness ==
    /\ variant = "markup" /\ nparse = 1
    /\ \E i \in 1..Len(out) : \E j \in 1..Len(out[i].hits) :
           Len(out[i].hits[j].hsps) = 2

\* the records of two iterations have been yielded in the first parse, the
\* second of them with a hit
C22_WitnessTwoIterations ==
    /\ variant = "markup" /\ nparse = 1
    /\ \E i, j \in 1..Len(out) :
           /\ outLog[i].iter < outLog[j].iter
           /\ out[j].hits # <<>>

(* ------------- state and working state in the text variant ------------- *)
\* C23: in the first parse of a text instance, between line steps, the
\* identifier is empty exactly when the state is ScanForQuery, the hit list
\* is empty whenever the identifier is empty, and whatever line comes next, a
\* Hit is appended only to the hit list of a query whose identifier is held
C23_StateMatchesIdentifier ==
    (variant = "text" /\ nparse = 1 /\ pc = "lines") =>
        /\ (tp.query_id = <<>>) <=> (tp.state = "scan_for_query")
        /\ tp.query_id = <<>> => tp.hits = <<>>
        /\ \A raw \in TLines :
               LET r == T_dispatch(tp, Strip(raw), nlines + 1)
               IN  Len(r.p.hits) > Len(tp.hits)
                       => tp.query_id # <<>> /\ r.p.query_id = tp.query_id

\* in the first parse a record has been yielded on 'No hits found' and the
\* instance is back in ScanForQuery with no identifier and no hit held
C23_Witness ==
    /\ variant = "text" /\ nparse = 1 /\ pc = "lines"
    /\ tp.state = "scan_for_query" /\ tp.query_id = <<>> /\ tp.hits = <<>>
    /\ \E i \in 1..Len(out) : outLog[i].via = "nohits"

\* in the first parse a hit has been appended to the list of the query held
C23_WitnessHit ==
    /\ variant = "text" /\ nparse = 1 /\ pc = "lines"
    /\ tp.state = "scan_for_subject" /\ tp.query_id # <<>> /\ tp.hits # <<>>

====
